---- MODULE Spec2Model ----
(***************************************************************************)
(* A model of the sanitization job of src/wiping.py (WipeThread) and of    *)
(* the certificate issuance of src/wipe_certificates/main.py (richa), with *)
(* the identity provisioning of two concurrent processes, one call of      *)
(* _run_command seen alone with the pipes of its process, the method field *)
(* of src/certificate.py, and the wipe EasyWipeApp of src/main.py starts   *)
(* through DataWiper.wipe_device.                                          *)
(*                                                                         *)
(* Python strings are TLA+ strings; an f-string is the tuple of its        *)
(* pieces.  Chars(s) gives the characters of a device name, so that the    *)
(* substring tests of the dispatcher are computed, not assumed.            *)
(***************************************************************************)
EXTENDS Integers, Sequences, FiniteSets, TLC

(***************************************************************************)
(* Bounds of the model.                                                    *)
(***************************************************************************)
MaxDevices == 2
MaxPasses == 3
MaxIssuances == 2
MaxTotal == 3
MaxWrite == 3
PipeCapacity == 1
MaxSelected == 2
MaxCalls == 2
MaxRuns == 2

(***************************************************************************)
(* Device names and their characters.                                      *)
(***************************************************************************)
NoName == ""

DeviceNames == {NoName, "/dev/nvme0n1", "/dev/sda", "/dev/vdx"}

\* names of other drivers' disks, beside those of the NVMe and SCSI drivers
DriverNames == {"/dev/nvme0n1", "/dev/sda", "/dev/rssda"}

Chars(s) ==
    CASE s = "/dev/nvme0n1" -> <<"/","d","e","v","/","n","v","m","e","0","n","1">>
      [] s = "/dev/sda"     -> <<"/","d","e","v","/","s","d","a">>
      [] s = "/dev/vdx"     -> <<"/","d","e","v","/","v","d","x">>
      [] s = "/dev/rssda"   -> <<"/","d","e","v","/","r","s","s","d","a">>
      [] s = "nvme"         -> <<"n","v","m","e">>
      [] s = "sd"           -> <<"s","d">>
      [] OTHER              -> <<>>

\* Python's `sub in s` on strings
Contains(sub, s) ==
    LET a == Chars(sub)
        b == Chars(s)
    IN  \E k \in 0..(Len(b) - Len(a)) : SubSeq(b, k + 1, k + Len(a)) = a

\* os.path.basename: the characters after the last "/"
Basename(p) ==
    LET c == Chars(p)
        slashes == {k \in DOMAIN c : c[k] = "/"}
        last == IF slashes = {} THEN 0
                ELSE CHOOSE k \in slashes : \A j \in slashes : j <= k
    IN  SubSeq(c, last + 1, Len(c))

\* Python's name.startswith(prefix), the name given as its characters
StartsWith(name, prefix) ==
    LET a == Chars(prefix)
    IN  Len(a) <= Len(name) /\ SubSeq(name, 1, Len(a)) = a

\* DataWiper._detect_device_type(device_name)
DetectDeviceType(device_name) ==
    IF StartsWith(device_name, "nvme") THEN "NVMe"
    ELSE IF StartsWith(device_name, "sd") THEN "SATA"
    ELSE "Other"

\* the decimal digits of a non-negative integer, as str() gives them
Digit(d) == <<"0","1","2","3","4","5","6","7","8","9">>[d + 1]

RECURSIVE Decimal(_)
Decimal(n) == IF n < 10 THEN <<Digit(n)>> ELSE Decimal(n \div 10) \o <<Digit(n % 10)>>

(***************************************************************************)
(* The state of a WipeThread and of the processes it starts.               *)
(***************************************************************************)
VARIABLES
    device_list,   \* self.device_list: sequence of [name |-> string]
    passes,        \* self.passes
    is_running,    \* self.is_running
    methods_used,  \* self.methods_used: function device path -> method string
    pc,            \* position of run(): "idle", "iter", a command name, "done"
    i,             \* index of the loop of run(), from 1
    wiped,         \* devices_wiped_successfully of run()
    progress,      \* values emitted on the progress signal
    finished,      \* emissions of the finished signal
    procs,         \* external processes alive
    cur,           \* the command _run_command is executing
    log,           \* history: every command handed to _run_command
    outcome,       \* history: how the iteration of each device ended
    seen           \* history: what os.stat and the rotational file gave

wipeVars == <<device_list, passes, is_running, methods_used, pc, i, wiped,
              progress, finished, procs, cur, log, outcome, seen>>

(***************************************************************************)
(* The state of the issuance: the files of wipe_certificates/main.py and   *)
(* the position of richa().                                                *)
(***************************************************************************)
VARIABLES
    p12,           \* the file P12_FILE: [exists, pass, key]
    P12_PASSWORD,  \* the passphrase read from the environment at import
    files,         \* the files under json_reports/ and pdf_reports/, by path
    rpc,           \* position of richa(): "idle" between calls
    report_uuid,   \* argument of the call
    data,          \* argument of the call
    ended,         \* how the last call ended: "none", "returned", "raised"
    sign_result,   \* history: what sign_pdf did in this call
    printed_signed,\* history: line 66 printed "PDF signed successfully"
    rendered,      \* history: generate_pdf wrote the unsigned document in this call
    removed,       \* history: per uuid, os.remove was called on the unsigned document
    json_from,     \* history: per uuid, the data of the call that last wrote the JSON
    issuances      \* history: number of calls of richa()

issueVars == <<p12, P12_PASSWORD, files, rpc, report_uuid, data, ended, sign_result,
               printed_signed, rendered, removed, json_from, issuances>>

(***************************************************************************)
(* Two processes that import wipe_certificates/main.py with the same       *)
(* P12_FILE and call richa() at the same time: the bundle they share and   *)
(* the position of each in lines 33-38 and in create_p12.                  *)
(***************************************************************************)
VARIABLES
    bundle,        \* the shared file P12_FILE: [exists, key], key 0 when empty
    wpc,           \* per process, its position
    wkey,          \* per process, the key pair create_p12 generated in memory
    wsigned,       \* per process, the key it loaded for signing: -1 when the load failed
    bundle_writes  \* history: the processes that wrote the bundle, in order

provisionVars == <<bundle, wpc, wkey, wsigned, bundle_writes>>

(***************************************************************************)
(* One call of _run_command seen alone, with the process it starts.        *)
(***************************************************************************)
VARIABLES
    command,       \* the argument of the call
    cpc,           \* position of _run_command: "idle", "popen", "reading", "waited", "returned", "raised"
    child,         \* the process: [state, code, stderr]
    started,       \* history: the argv of every process the call started
    raised,        \* the exception that left the call, NoError when none
    towrite,       \* what the process has still to write: [out, err], in chunks
    pipe           \* the chunks held by the pipes of stdout and stderr: [out, err]

commandVars == <<command, cpc, child, started, raised, towrite, pipe>>

(***************************************************************************)
(* EasyWipeApp of src/main.py with the WipeThread and DataWiper it starts. *)
(***************************************************************************)
VARIABLES
    selected,      \* device_list.selectedItems(): the device dicts, in order
    page,          \* the page shown: "system_info", "loading", "report", "unsuccessful"
    device_path,   \* the device_path of the WipeThread, NoName when none started
    wpos,          \* position of DataWiper.wipe_device: "none", a step, "done"
    exists,        \* history: what the file system said of device_path
    runs,          \* history: every subprocess.run of the wipe, [argv, result]
    completed,     \* emissions of wipe_completed: [success, message]
    wipe_results,  \* self.wipe_results: [success, devices_wiped], NoResults when {}
    is_wiping,     \* DataWiper.is_wiping
    calls          \* history: is_wiping on entry, for every call of wipe_device

appVars == <<selected, page, device_path, wpos, exists, runs, completed, wipe_results,
             is_wiping, calls>>

vars == <<wipeVars, issueVars, provisionVars, commandVars, appVars>>

\* what an action of the job, of the issuance, of the provisioning and of the
\* command leaves alone
besidesJob == <<issueVars, provisionVars, commandVars, appVars>>
besidesIssue == <<wipeVars, provisionVars, commandVars, appVars>>
besidesProvision == <<wipeVars, issueVars, commandVars, appVars>>
besidesCommand == <<wipeVars, issueVars, provisionVars, appVars>>
besidesApp == <<wipeVars, issueVars, provisionVars, commandVars>>

\* a file that does not exist; the content of a file is a tuple
Absent == <<>>
NoP12 == [exists |-> FALSE, pass |-> "", key |-> 0]
NoSigned == [state |-> "absent", key |-> 0, of |-> Absent]
NoFile == [state |-> "absent", content |-> Absent, key |-> 0]
Uuids == {"A", "B"}

\* the dict handed to richa(), as the sequence of its items in insertion order;
\* the second one already has a "report_uuid" key
Datas == {<< <<"device", "sda">> >>,
          << <<"report_uuid", "old">>, <<"device", "sda">> >>}

\* d[k] = v on a dict: the value changes in place, a new key goes last
DictSet(d, k, v) ==
    IF \E n \in 1..Len(d) : d[n][1] = k
    THEN [n \in 1..Len(d) |-> IF d[n][1] = k THEN <<k, v>> ELSE d[n]]
    ELSE Append(d, <<k, v>>)

\* the paths richa() builds with os.path.join and its f-strings
JSON_FOLDER == "json_reports"
PDF_FOLDER == "pdf_reports"
JsonPath(u) == <<JSON_FOLDER, "/", "sanitization_report_", u, ".json">>
UnsignedPath(u) == <<PDF_FOLDER, "/", "unsigned_report_", u, ".pdf">>
\* one output file for every report
SignedPathFixed(u) == <<PDF_FOLDER, "/", "sanitization_report_", "A", ".pdf">>

SignedPath(u) == <<PDF_FOLDER, "/", "sanitization_report_", u, ".pdf">>
Paths == {JsonPath(u) : u \in Uuids} \cup {UnsignedPath(u) : u \in Uuids}
         \cup {SignedPath(u) : u \in Uuids}

\* the three kinds of file of a report, per uuid
json_reports == [u \in Uuids |-> files[JsonPath(u)].content]
unsigned_pdf == [u \in Uuids |-> files[UnsignedPath(u)].content]
signed_pdf ==
    [u \in Uuids |-> [state |-> files[SignedPath(u)].state,
                      key |-> files[SignedPath(u)].key,
                      of |-> files[SignedPath(u)].content]]

Passwords == {"123", "other"}

ExitCodes == {0, 1}
StatResults == {"blk", "notblk", "enoent", "oserror"}
RotationalReads == {"0", "1", "unreadable"}

NoCmd == [dev |-> 0, argv |-> <<>>, spawned |-> FALSE]
NoExc == [type |-> "None", text |-> <<>>]

(***************************************************************************)
(* The argv of the external commands.                                      *)
(***************************************************************************)
SanitizeCmd(p) == <<"nvme", "sanitize", p, "-a", "2">>
FormatCmd(p) == <<"nvme", "format", p, "-s", "1">>
Password == "p"
SetPassCmd(p) == <<"hdparm", "--user-master", "user", "--security-set-pass", Password, p>>
EraseCmd(p) == <<"hdparm", "--user-master", "user", "--security-erase", Password, p>>
DisableCmd(p) == <<"hdparm", "--user-master", "user", "--security-disable", Password, p>>
ShredCmd(p) == <<"stdbuf", "-oL", "shred", "-n", "2", "-v", "-z", p>>

(***************************************************************************)
(* The method strings recorded in methods_used.                            *)
(***************************************************************************)
SanitizeMethod == <<"NVMe Sanitize (Cryptographic Erase)">>
\* the format branch recording the string of the sanitize branch
FormatMethodCopied == <<"NVMe Sanitize (Cryptographic Erase)">>
FormatMethod == <<"NVMe Format (User Data Erase)">>
SecureEraseMethod == <<"ATA Secure Erase">>
OverwriteMethod == Decimal(passes) \o <<"-Pass Overwrite (shred)">>

(***************************************************************************)
(* Exceptions: the type and str(e), the tuple of the pieces of the text.   *)
(***************************************************************************)
CancelledError == [type |-> "Exception", text |-> <<"Wipe process was cancelled by the user.">>]
NoPathError == [type |-> "Exception", text |-> <<"Could not find device path in device data.">>]
NotBlockError(p) == [type |-> "Exception", text |-> <<"Path ", p, " is not a block device. Halting for safety.">>]
NotFoundError(p) == [type |-> "Exception", text |-> <<"Device path ", p, " does not exist.">>]
StatOSError(p) == [type |-> "OSError", text |-> <<"os.stat failed: ", p>>]
UnsupportedError(p) == [type |-> "Exception", text |-> <<"Unsupported device type for ", p>>]
FormatAlsoFailed(p, e) == [type |-> "Exception", text |-> <<"NVMe Format also failed on ", p, ": ", e.text>>]
SpawnError(argv) == [type |-> "FileNotFoundError", text |-> <<"No such file or directory: ", argv[1]>>]
CalledProcessError(rc, argv) ==
    [type |-> "CalledProcessError",
     text |-> <<"Command '", argv, "' returned non-zero exit status ", Decimal(rc), ".">>]

(***************************************************************************)
(* _generate_report                                                        *)
(***************************************************************************)
\* a report that lists every targeted device as wiped
GenerateReportAllTargeted(success, message, wiped_devices) ==
    [devices_targeted |-> [k \in 1..Len(device_list) |-> device_list[k].name],
     devices_wiped_successfully |-> [k \in 1..Len(device_list) |-> device_list[k].name],
     status |-> IF success THEN "Success" ELSE "Failed",
     message |-> message,
     methods_used |-> methods_used]

GenerateReport(success, message, wiped_devices) ==
    [devices_targeted |-> [k \in 1..Len(device_list) |-> device_list[k].name],
     devices_wiped_successfully |-> wiped_devices,
     status |-> IF success THEN "Success" ELSE "Failed",
     message |-> message,
     methods_used |-> methods_used]

(***************************************************************************)
(* _run_command: Popen, then the wait for the exit of the process.         *)
(***************************************************************************)
\* the process table and the history once the process of cur has been waited for
Reaped == procs \ {[dev |-> cur.dev, argv |-> cur.argv]}

LogDone(res) == [log EXCEPT ![Len(log)].result = res]

\* what _run_command gives for a process that could not be started (spawned
\* false) or that exited with code rc: NoExc when it returns normally
RunCommandResult(c, rc) ==
    IF ~c.spawned THEN SpawnError(c.argv)
    ELSE IF rc # 0 THEN CalledProcessError(rc, c.argv)
    ELSE NoExc

ResultName(c, rc) ==
    IF ~c.spawned THEN "nospawn" ELSE IF rc = 0 THEN "exit0" ELSE "nonzero"

\* Popen of argv for the device at index i from the process table ps and the
\* history lg; run() then waits at position next
RunCommand(argv, next, ps, lg) ==
    /\ \E sp \in BOOLEAN :
          /\ cur' = [dev |-> i, argv |-> argv, spawned |-> sp]
          /\ procs' = IF sp THEN ps \cup {[dev |-> i, argv |-> argv]} ELSE ps
          /\ log' = Append(lg, [dev |-> i, argv |-> argv, result |-> "inflight"])
    /\ pc' = next
    /\ UNCHANGED <<methods_used, i, wiped, progress, finished, outcome>>

(***************************************************************************)
(* run(): the end of an iteration.                                         *)
(***************************************************************************)
\* the index of enumerate() taken without its + 1
ProgressValZeroBased(k, total) == ((k - 1) * 100) \div total

\* line 63: int(((i + 1) / total_devices) * 100), k being i + 1; the double
\* arithmetic of Python gives the integer quotient for every total below 50
ProgressVal(k, total) == (k * 100) \div total

\* _wipe_device returned after recording method: lines 60-64 of run()
DeviceWiped(method) ==
    /\ methods_used' = (device_list[i].name :> method) @@ methods_used
    /\ wiped' = Append(wiped, device_list[i].name)
    /\ progress' = Append(progress, ProgressVal(i, Len(device_list)))
    /\ outcome' = [outcome EXCEPT ![i] = "wiped"]
    /\ i' = i + 1
    /\ pc' = "iter"
    /\ UNCHANGED finished

\* skip-and-continue: the failed device is passed over and the loop goes on
JobFailedContinue(e) ==
    /\ outcome' = [outcome EXCEPT ![i] = "failed"]
    /\ i' = i + 1
    /\ pc' = "iter"
    /\ UNCHANGED <<methods_used, wiped, progress, finished>>

\* the exception ends the thread without a report
JobFailedSilent(e) ==
    /\ outcome' = [outcome EXCEPT ![i] = "failed"]
    /\ pc' = "done"
    /\ UNCHANGED <<methods_used, i, wiped, progress, finished>>

\* line 72: error_message = f"An error occurred: {e}", with str(e) the text of e
ErrorOccurred(e) == <<"An error occurred: ", e.text>>

\* an exception e left the loop: the except clause of run()
JobFailed(e) ==
    /\ finished' = Append(finished,
          [success |-> FALSE,
           message |-> ErrorOccurred(e),
           report |-> GenerateReport(FALSE, ErrorOccurred(e), wiped)])
    /\ outcome' = [outcome EXCEPT ![i] = "failed"]
    /\ pc' = "done"
    /\ UNCHANGED <<methods_used, i, wiped, progress>>

(***************************************************************************)
(* _wipe_device up to its first command.                                   *)
(***************************************************************************)
IsNvme(p) == Contains("nvme", p)
IsSata(p) == Contains("sd", p)

\* a check that only asks whether the path exists
IsBlockDeviceExistsOnly(st) == st \notin {"enoent", "oserror"}

\* the safety check of run() on the result of os.stat
IsBlockDevice(st) == st = "blk"

StatError(st, p) ==
    CASE st = "notblk" -> NotBlockError(p)
      [] st = "enoent" -> NotFoundError(p)
      [] OTHER         -> StatOSError(p)

\* secure erase tried whatever the rotational file says
TriesSecureEraseAlways(rot) == TRUE

\* an unreadable rotational file taken as "not a hard disk"
TriesSecureEraseUnlessHdd(rot) == rot # "1"

\* the secure-erase branch is taken when the rotational file reads other than '1'
TriesSecureErase(rot) == rot # "unreadable" /\ rot # "1"

\* an unknown name falls through to the overwrite
UnsupportedDeviceShred(p) == RunCommand(ShredCmd(p), "shred", procs, log)

\* the raise that ends _wipe_device for a name with neither 'nvme' nor 'sd'
UnsupportedDevice(p) == JobFailed(UnsupportedError(p)) /\ UNCHANGED <<procs, cur, log>>

WipeDevice(p, rot) ==
    IF IsNvme(p) THEN RunCommand(SanitizeCmd(p), "sanitize", procs, log)
    ELSE IF IsSata(p) THEN
        IF TriesSecureErase(rot) THEN RunCommand(SetPassCmd(p), "setpass", procs, log)
        ELSE RunCommand(ShredCmd(p), "shred", procs, log)
    ELSE UnsupportedDevice(p)

\* a loop that never looks at the flag
CancelledNever == FALSE

\* line 41: not self.is_running
Cancelled == ~is_running

(***************************************************************************)
(* The actions of the job.                                                 *)
(***************************************************************************)
\* run() is entered
Start ==
    /\ UNCHANGED besidesJob
    /\ pc = "idle"
    /\ pc' = "iter"
    /\ i' = 1
    /\ wiped' = <<>>
    /\ UNCHANGED <<device_list, passes, is_running, methods_used, progress,
                   finished, procs, cur, log, outcome, seen>>

\* one pass through the head of the loop: lines 40-57, and _wipe_device up to
\* its first command
Iterate ==
    /\ UNCHANGED besidesJob
    /\ pc = "iter"
    /\ i <= Len(device_list)
    /\ UNCHANGED <<device_list, passes, is_running>>
    /\ LET p == device_list[i].name IN
       IF Cancelled THEN
           JobFailed(CancelledError) /\ UNCHANGED <<procs, cur, log, seen>>
       ELSE IF p = NoName THEN
           JobFailed(NoPathError) /\ UNCHANGED <<procs, cur, log, seen>>
       ELSE \E st \in StatResults :
           IF ~IsBlockDevice(st) THEN
               /\ seen' = [seen EXCEPT ![i].stat = st]
               /\ JobFailed(StatError(st, p))
               /\ UNCHANGED <<procs, cur, log>>
           ELSE \E rot \in (IF ~IsNvme(p) /\ IsSata(p) THEN RotationalReads ELSE {"unread"}) :
               /\ seen' = [seen EXCEPT ![i] = [stat |-> st, rot |-> rot]]
               /\ WipeDevice(p, rot)

\* the flag is looked at once more when the loop is over
FinishUnlessCancelled ==
    /\ UNCHANGED besidesJob
    /\ pc = "iter"
    /\ i > Len(device_list)
    /\ finished' = Append(finished,
          IF Cancelled
          THEN [success |-> FALSE,
                message |-> ErrorOccurred(CancelledError),
                report |-> GenerateReport(FALSE, ErrorOccurred(CancelledError), wiped)]
          ELSE [success |-> TRUE,
                message |-> <<"Success">>,
                report |-> GenerateReport(TRUE, <<"Wipe completed successfully.">>, wiped)])
    /\ pc' = "done"
    /\ UNCHANGED <<device_list, passes, is_running, methods_used, i, wiped,
                   progress, procs, cur, log, outcome, seen>>

\* a job with nothing to wipe reported as failed
FinishEmptyFails ==
    /\ UNCHANGED besidesJob
    /\ pc = "iter"
    /\ i > Len(device_list)
    /\ finished' = Append(finished,
          IF device_list = <<>>
          THEN [success |-> FALSE,
                message |-> ErrorOccurred(NoPathError),
                report |-> GenerateReport(FALSE, ErrorOccurred(NoPathError), wiped)]
          ELSE [success |-> TRUE,
                message |-> <<"Success">>,
                report |-> GenerateReport(TRUE, <<"Wipe completed successfully.">>, wiped)])
    /\ pc' = "done"
    /\ UNCHANGED <<device_list, passes, is_running, methods_used, i, wiped,
                   progress, procs, cur, log, outcome, seen>>

\* the loop is over: lines 66-68
Finish ==
    /\ UNCHANGED besidesJob
    /\ pc = "iter"
    /\ i > Len(device_list)
    /\ finished' = Append(finished,
          [success |-> TRUE,
           message |-> <<"Success">>,
           report |-> GenerateReport(TRUE, <<"Wipe completed successfully.">>, wiped)])
    /\ pc' = "done"
    /\ UNCHANGED <<device_list, passes, is_running, methods_used, i, wiped,
                   progress, procs, cur, log, outcome, seen>>

\* the outcomes _run_command can give for the command in flight
Outcomes == IF cur.spawned THEN ExitCodes ELSE {1}

SanitizeExit ==
    /\ UNCHANGED besidesJob
    /\ pc = "sanitize"
    /\ UNCHANGED <<device_list, passes, is_running, seen>>
    /\ \E rc \in Outcomes :
        LET e == RunCommandResult(cur, rc)
            p == device_list[i].name
        IN  IF e.type = "None" THEN
                /\ DeviceWiped(SanitizeMethod)
                /\ procs' = Reaped /\ log' = LogDone(ResultName(cur, rc)) /\ cur' = NoCmd
            ELSE RunCommand(FormatCmd(p), "format", Reaped, LogDone(ResultName(cur, rc)))

\* a third fallback for NVMe: overwrite after the format failed
AfterFormatFailedShred(p, e, lg) == RunCommand(ShredCmd(p), "shred", Reaped, lg)

\* nvme format failed with e: the raise of line 136
AfterFormatFailed(p, e, lg) ==
    /\ JobFailed(FormatAlsoFailed(p, e))
    /\ procs' = Reaped /\ log' = lg /\ cur' = NoCmd

FormatExit ==
    /\ UNCHANGED besidesJob
    /\ pc = "format"
    /\ UNCHANGED <<device_list, passes, is_running, seen>>
    /\ \E rc \in Outcomes :
        LET e == RunCommandResult(cur, rc)
            p == device_list[i].name
            lg == LogDone(ResultName(cur, rc))
        IN  IF e.type = "None" THEN
                /\ DeviceWiped(FormatMethod)
                /\ procs' = Reaped /\ log' = lg /\ cur' = NoCmd
            ELSE AfterFormatFailed(p, e, lg)

SetPassExit ==
    /\ UNCHANGED besidesJob
    /\ pc = "setpass"
    /\ UNCHANGED <<device_list, passes, is_running, seen>>
    /\ \E rc \in Outcomes :
        LET e == RunCommandResult(cur, rc)
            p == device_list[i].name
            lg == LogDone(ResultName(cur, rc))
        IN  IF e.type = "None" THEN RunCommand(EraseCmd(p), "erase", Reaped, lg)
            ELSE RunCommand(ShredCmd(p), "shred", Reaped, lg)

EraseExit ==
    /\ UNCHANGED besidesJob
    /\ pc = "erase"
    /\ UNCHANGED <<device_list, passes, is_running, seen>>
    /\ \E rc \in Outcomes :
        LET e == RunCommandResult(cur, rc)
            p == device_list[i].name
            lg == LogDone(ResultName(cur, rc))
        IN  IF e.type = "None" THEN
                /\ DeviceWiped(SecureEraseMethod)
                /\ procs' = Reaped /\ log' = lg /\ cur' = NoCmd
            ELSE RunCommand(DisableCmd(p), "disable", Reaped, lg)

\* a failing security-disable ends the device: no overwrite after it
DisableExitStrict ==
    /\ UNCHANGED besidesJob
    /\ pc = "disable"
    /\ UNCHANGED <<device_list, passes, is_running, seen>>
    /\ \E rc \in Outcomes :
        LET e == RunCommandResult(cur, rc)
            p == device_list[i].name
            lg == LogDone(ResultName(cur, rc))
        IN  IF e.type = "None" THEN RunCommand(ShredCmd(p), "shred", Reaped, lg)
            ELSE /\ JobFailed(e)
                 /\ procs' = Reaped /\ log' = lg /\ cur' = NoCmd

\* whether security-disable returns or raises, the exception reaches the except
\* clause of _wipe_device, which falls through to shred
DisableExit ==
    /\ UNCHANGED besidesJob
    /\ pc = "disable"
    /\ UNCHANGED <<device_list, passes, is_running, seen>>
    /\ \E rc \in Outcomes :
        LET p == device_list[i].name
        IN  RunCommand(ShredCmd(p), "shred", Reaped, LogDone(ResultName(cur, rc)))

ShredExit ==
    /\ UNCHANGED besidesJob
    /\ pc = "shred"
    /\ UNCHANGED <<device_list, passes, is_running, seen>>
    /\ procs' = Reaped /\ cur' = NoCmd
    /\ \E rc \in Outcomes :
        LET e == RunCommandResult(cur, rc)
        IN  /\ log' = LogDone(ResultName(cur, rc))
            /\ IF e.type = "None" THEN DeviceWiped(OverwriteMethod)
               ELSE JobFailed(e)

\* stop(), called from another thread
Stop ==
    /\ UNCHANGED besidesJob
    /\ is_running
    /\ is_running' = FALSE
    /\ UNCHANGED <<device_list, passes, methods_used, pc, i, wiped, progress,
                   finished, procs, cur, log, outcome, seen>>

(***************************************************************************)
(* The job after __init__, for every device list and pass count within     *)
(* the bounds.                                                             *)
(***************************************************************************)
RECURSIVE SeqsUpTo(_, _)
SeqsUpTo(S, n) ==
    IF n = 0 THEN {<<>>}
    ELSE LET shorter == SeqsUpTo(S, n - 1)
         IN  shorter \cup {Append(q, x) : q \in shorter, x \in S}

JobInit ==
    /\ device_list \in SeqsUpTo({[name |-> n] : n \in DeviceNames}, MaxDevices)
    /\ passes \in 1..MaxPasses
    /\ is_running = TRUE
    /\ methods_used = <<>>
    /\ pc = "idle"
    /\ i = 0
    /\ wiped = <<>>
    /\ progress = <<>>
    /\ finished = <<>>
    /\ procs = {}
    /\ cur = NoCmd
    /\ log = <<>>
    /\ outcome = [k \in 1..Len(device_list) |-> "pending"]
    /\ seen = [k \in 1..Len(device_list) |-> [stat |-> "unchecked", rot |-> "unread"]]

(***************************************************************************)
(* richa(data, report_uuid) of wipe_certificates/main.py, step by step.    *)
(***************************************************************************)
\* a dump that also writes which issuance it is
JsonDumpStamped(d, u) == Append(DictSet(d, "report_uuid", u), <<"issued", Digit(issuances)>>)

\* json.dump(data, f, indent=4) after data["report_uuid"] = report_uuid: the
\* items of the dict in order
JsonDump(d, u) == DictSet(d, "report_uuid", u)

\* a file written to its end
Written(content) == [state |-> "written", content |-> content, key |-> 0]

\* a file opened for writing whose content did not get written
Partial == [state |-> "partial", content |-> Absent, key |-> 0]

\* the call ends with an exception
Raise ==
    /\ rpc' = "idle"
    /\ ended' = "raised"

\* the bundle made anew at every call
BundleMissingAlways == TRUE

\* os.path.exists(P12_FILE) is false
BundleMissing == ~p12.exists

\* the call is made; lines 33-38 look for the identity bundle
RichaEnter ==
    /\ UNCHANGED besidesIssue
    /\ rpc = "idle"
    /\ issuances < MaxIssuances
    /\ \E d \in Datas, u \in Uuids : data' = d /\ report_uuid' = u
    /\ issuances' = issuances + 1
    /\ ended' = "none"
    /\ sign_result' = "none"
    /\ printed_signed' = FALSE
    /\ rendered' = FALSE
    /\ rpc' = IF BundleMissing THEN "create_p12" ELSE "json"
    /\ UNCHANGED <<p12, P12_PASSWORD, files, removed, json_from>>

\* create_p12(P12_FILE, P12_PASSWORD): a new key pair under the passphrase, or an
\* exception when the bundle cannot be written
CreateP12 ==
    /\ UNCHANGED besidesIssue
    /\ rpc = "create_p12"
    /\ \/ /\ p12' = [exists |-> TRUE, pass |-> P12_PASSWORD, key |-> issuances]
          /\ rpc' = "json"
          /\ UNCHANGED ended
       \/ Raise /\ UNCHANGED p12
    /\ UNCHANGED <<P12_PASSWORD, files, report_uuid, data, sign_result,
                   printed_signed, rendered, removed, json_from, issuances>>

\* lines 45-50: the file is written, or open() fails, or the dump fails after
\* open() truncated the file
WriteJson ==
    /\ UNCHANGED besidesIssue
    /\ rpc = "json"
    /\ \/ /\ files' = [files EXCEPT ![JsonPath(report_uuid)] =
                                        Written(JsonDump(data, report_uuid))]
          /\ json_from' = [json_from EXCEPT ![report_uuid] = data]
          /\ rpc' = "render"
          /\ UNCHANGED ended
       \/ Raise /\ UNCHANGED <<files, json_from>>
       \/ Raise /\ files' = [files EXCEPT ![JsonPath(report_uuid)] = Partial]
                /\ UNCHANGED json_from
    /\ UNCHANGED <<p12, P12_PASSWORD, report_uuid, data, sign_result,
                   printed_signed, rendered, removed, issuances>>

\* lines 53-56: generate_pdf writes the unsigned document or raises
GeneratePdf ==
    /\ UNCHANGED besidesIssue
    /\ rpc = "render"
    /\ \/ /\ files' = [files EXCEPT ![UnsignedPath(report_uuid)] =
                                        Written(JsonDump(data, report_uuid))]
          /\ rendered' = TRUE
          /\ rpc' = "sign"
          /\ UNCHANGED ended
       \/ Raise /\ UNCHANGED <<files, rendered>>
    /\ UNCHANGED <<p12, P12_PASSWORD, report_uuid, data, sign_result,
                   printed_signed, removed, json_from, issuances>>

\* where sign_pdf can end: "signed", or the statement whose exception its except
\* clause catches: "load" (load_pkcs12), "open_input" (open(input_pdf)), "sign"
\* (once output_pdf is open for writing).  With no usable identity it cannot sign.
SignEnds ==
    IF ~p12.exists \/ p12.pass # P12_PASSWORD THEN {"load", "sign"}
    ELSE IF unsigned_pdf[report_uuid] = Absent THEN {"load", "open_input"}
    ELSE {"signed", "load", "open_input", "sign"}

\* the file at output_pdf after sign_pdf ended with r: open(output_pdf, "wb")
\* truncates it before the signature is written
OutputAfter(r, before) ==
    CASE r = "signed" -> [state |-> "signed", content |-> unsigned_pdf[report_uuid],
                          key |-> p12.key]
      [] r = "sign"   -> Partial
      [] OTHER        -> before

\* lines 58-60: sign_pdf catches every exception and returns None; richa does not
\* look at what it returns
SignPdf ==
    /\ UNCHANGED besidesIssue
    /\ rpc = "sign"
    /\ \E r \in SignEnds :
          /\ sign_result' = r
          /\ files' = [files EXCEPT ![SignedPath(report_uuid)] = OutputAfter(r, @)]
    /\ rpc' = "remove"
    /\ UNCHANGED <<p12, P12_PASSWORD, report_uuid, data, ended, printed_signed,
                   rendered, removed, json_from, issuances>>

\* always delete the unsigned document
SignedExistsIgnored(u) == TRUE

\* os.path.exists(signed_pdf_path)
SignedExists(u) == signed_pdf[u].state # "absent"

\* the JSON report removed in place of the unsigned document
RemovedPathJson(u) == JsonPath(u)

\* line 63: os.remove(pdf_filename)
RemovedPath(u) == UnsignedPath(u)

\* lines 62-66
RemoveUnsigned ==
    /\ UNCHANGED besidesIssue
    /\ rpc = "remove"
    /\ IF SignedExists(report_uuid)
       THEN /\ files' = [files EXCEPT ![RemovedPath(report_uuid)] = NoFile]
            /\ removed' = [removed EXCEPT ![report_uuid] = TRUE]
       ELSE UNCHANGED <<files, removed>>
    /\ printed_signed' = TRUE
    /\ rpc' = "idle"
    /\ ended' = "returned"
    /\ UNCHANGED <<p12, P12_PASSWORD, report_uuid, data, sign_result, rendered,
                   json_from, issuances>>

\* the module after import: the bundle of an earlier process may be there, made
\* under any passphrase
IssuerInit ==
    /\ p12 \in {NoP12} \cup {[exists |-> TRUE, pass |-> w, key |-> 0] : w \in Passwords}
    /\ P12_PASSWORD \in Passwords
    /\ files = [f \in Paths |-> NoFile]
    /\ rpc = "idle"
    /\ report_uuid = "A"
    /\ data = << <<"device", "sda">> >>
    /\ ended = "none"
    /\ sign_result = "none"
    /\ printed_signed = FALSE
    /\ rendered = FALSE
    /\ removed = [u \in Uuids |-> FALSE]
    /\ json_from = [u \in Uuids |-> <<>>]
    /\ issuances = 0

IssuerIdle ==
    /\ IssuerInit
    /\ p12 = NoP12
    /\ P12_PASSWORD = "123"

(***************************************************************************)
(* No second process provisions an identity, and no call of _run_command   *)
(* is looked at alone.                                                     *)
(***************************************************************************)
Workers == {1, 2}
NoBundle == [exists |-> FALSE, key |-> 0]
NoChild == [state |-> "none", code |-> 0, stderr |-> ""]
NoError == [type |-> "None", text |-> <<>>, cmd |-> <<>>, returncode |-> 0, stderr |-> <<>>]

ProvisionIdle ==
    /\ bundle = NoBundle
    /\ wpc = [w \in Workers |-> "out"]
    /\ wkey = [w \in Workers |-> 0]
    /\ wsigned = [w \in Workers |-> 0]
    /\ bundle_writes = <<>>

NoChunks == [out |-> 0, err |-> 0]

NoResults == [success |-> FALSE, devices_wiped |-> <<>>]

AppIdle ==
    /\ selected = <<>>
    /\ page = "system_info"
    /\ device_path = NoName
    /\ wpos = "none"
    /\ exists = "unchecked"
    /\ runs = <<>>
    /\ completed = <<>>
    /\ wipe_results = NoResults
    /\ is_wiping = FALSE
    /\ calls = <<>>

CommandIdle ==
    /\ command = <<>>
    /\ cpc = "idle"
    /\ child = NoChild
    /\ started = <<>>
    /\ raised = NoError
    /\ towrite = NoChunks
    /\ pipe = NoChunks

(***************************************************************************)
(* The specification of the job: the issuer stays as it is.                *)
(***************************************************************************)
Init == JobInit /\ IssuerIdle /\ ProvisionIdle /\ CommandIdle /\ AppIdle

\* the steps of a started run: the thread runs and every command exits
Running ==
    \/ Iterate
    \/ Finish
    \/ SanitizeExit
    \/ FormatExit
    \/ SetPassExit
    \/ EraseExit
    \/ DisableExit
    \/ ShredExit

Next ==
    \/ Start
    \/ Iterate
    \/ Finish
    \/ SanitizeExit
    \/ FormatExit
    \/ SetPassExit
    \/ EraseExit
    \/ DisableExit
    \/ ShredExit
    \/ Stop

Spec == Init /\ [][Next]_vars

FairSpec == Spec /\ WF_vars(Running)

(***************************************************************************)
(* The job on longer lists of NVMe and SATA devices, one pass.             *)
(***************************************************************************)
LongJobInit ==
    /\ device_list \in SeqsUpTo({[name |-> n] : n \in {"/dev/nvme0n1", "/dev/sda"}}, MaxTotal)
    /\ passes = 1
    /\ is_running = TRUE
    /\ methods_used = <<>>
    /\ pc = "idle"
    /\ i = 0
    /\ wiped = <<>>
    /\ progress = <<>>
    /\ finished = <<>>
    /\ procs = {}
    /\ cur = NoCmd
    /\ log = <<>>
    /\ outcome = [k \in 1..Len(device_list) |-> "pending"]
    /\ seen = [k \in 1..Len(device_list) |-> [stat |-> "unchecked", rot |-> "unread"]]

LongInit == LongJobInit /\ IssuerIdle /\ ProvisionIdle /\ CommandIdle /\ AppIdle

LongSpec == LongInit /\ [][Next]_vars

(***************************************************************************)
(* The job on devices named by other drivers, one pass.                    *)
(***************************************************************************)
DriverJobInit ==
    /\ device_list \in SeqsUpTo({[name |-> n] : n \in DriverNames}, MaxDevices)
    /\ passes = 1
    /\ is_running = TRUE
    /\ methods_used = <<>>
    /\ pc = "idle"
    /\ i = 0
    /\ wiped = <<>>
    /\ progress = <<>>
    /\ finished = <<>>
    /\ procs = {}
    /\ cur = NoCmd
    /\ log = <<>>
    /\ outcome = [k \in 1..Len(device_list) |-> "pending"]
    /\ seen = [k \in 1..Len(device_list) |-> [stat |-> "unchecked", rot |-> "unread"]]

DriverInit == DriverJobInit /\ IssuerIdle /\ ProvisionIdle /\ CommandIdle /\ AppIdle

DriverSpec == DriverInit /\ [][Next]_vars

(***************************************************************************)
(* The same WipeThread object run again after a run has ended: run() sets  *)
(* its locals anew, and leaves the fields of the object as they are.  The  *)
(* history of commands starts again with the run.                          *)
(***************************************************************************)
Rerun ==
    /\ UNCHANGED besidesJob
    /\ pc = "done"
    /\ Len(finished) < MaxRuns
    /\ pc' = "iter"
    /\ i' = 1
    /\ wiped' = <<>>
    /\ log' = <<>>
    /\ outcome' = [k \in 1..Len(device_list) |-> "pending"]
    /\ seen' = [k \in 1..Len(device_list) |-> [stat |-> "unchecked", rot |-> "unread"]]
    /\ UNCHANGED <<device_list, passes, is_running, methods_used, progress,
                   finished, procs, cur>>

RerunNext ==
    \/ Start
    \/ Iterate
    \/ Finish
    \/ SanitizeExit
    \/ FormatExit
    \/ SetPassExit
    \/ EraseExit
    \/ DisableExit
    \/ ShredExit
    \/ Stop
    \/ Rerun

RerunSpec == DriverInit /\ [][RerunNext]_vars

(***************************************************************************)
(* The specification of the issuance: no job runs.                         *)
(***************************************************************************)
JobIdle ==
    /\ device_list = <<>>
    /\ passes = 1
    /\ is_running = TRUE
    /\ methods_used = <<>>
    /\ pc = "idle"
    /\ i = 0
    /\ wiped = <<>>
    /\ progress = <<>>
    /\ finished = <<>>
    /\ procs = {}
    /\ cur = NoCmd
    /\ log = <<>>
    /\ outcome = <<>>
    /\ seen = <<>>

IssueInit == JobIdle /\ IssuerInit /\ ProvisionIdle /\ CommandIdle /\ AppIdle

IssueNext ==
    \/ RichaEnter
    \/ CreateP12
    \/ WriteJson
    \/ GeneratePdf
    \/ SignPdf
    \/ RemoveUnsigned

IssueSpec == IssueInit /\ [][IssueNext]_vars

(***************************************************************************)
(* Identity provisioning by two processes: each runs lines 33-38 of        *)
(* richa() and create_p12 statement by statement against the one file      *)
(* P12_FILE, then goes on to its report and loads the bundle to sign.      *)
(* Nothing in the code locks the file or creates it exclusively.           *)
(***************************************************************************)
\* the bundle an earlier run left, when there is one
OldBundle == [exists |-> TRUE, key |-> 3]

\* a process calls richa()
WEnter ==
    /\ UNCHANGED besidesProvision
    /\ \E w \in Workers :
          /\ wpc[w] = "out"
          /\ wpc' = [wpc EXCEPT ![w] = "check"]
    /\ UNCHANGED <<bundle, wkey, wsigned, bundle_writes>>

\* line 33: os.path.exists(P12_FILE)
WExists ==
    /\ UNCHANGED besidesProvision
    /\ \E w \in Workers :
          /\ wpc[w] = "check"
          /\ wpc' = [wpc EXCEPT ![w] = IF bundle.exists THEN "report" ELSE "generate"]
    /\ UNCHANGED <<bundle, wkey, wsigned, bundle_writes>>

\* create_p12 lines 12-46: a fresh key pair and certificate, in memory; the key
\* of process w is w
WGenerate ==
    /\ UNCHANGED besidesProvision
    /\ \E w \in Workers :
          /\ wpc[w] = "generate"
          /\ wkey' = [wkey EXCEPT ![w] = w]
          /\ wpc' = [wpc EXCEPT ![w] = "open"]
    /\ UNCHANGED <<bundle, wsigned, bundle_writes>>

\* create_p12 line 49: open(filename, "wb") creates the file or empties it
WOpen ==
    /\ UNCHANGED besidesProvision
    /\ \E w \in Workers :
          /\ wpc[w] = "open"
          /\ bundle' = [exists |-> TRUE, key |-> 0]
          /\ wpc' = [wpc EXCEPT ![w] = "write"]
    /\ UNCHANGED <<wkey, wsigned, bundle_writes>>

\* create_p12 line 50: f.write(p12_data)
WWrite ==
    /\ UNCHANGED besidesProvision
    /\ \E w \in Workers :
          /\ wpc[w] = "write"
          /\ bundle' = [exists |-> TRUE, key |-> wkey[w]]
          /\ bundle_writes' = Append(bundle_writes, w)
          /\ wpc' = [wpc EXCEPT ![w] = "report"]
    /\ UNCHANGED <<wkey, wsigned>>

\* lines 45-56: the JSON report and the unsigned document of this process
WReport ==
    /\ UNCHANGED besidesProvision
    /\ \E w \in Workers :
          /\ wpc[w] = "report"
          /\ wpc' = [wpc EXCEPT ![w] = "load"]
    /\ UNCHANGED <<bundle, wkey, wsigned, bundle_writes>>

\* sign_pdf: load_pkcs12 reads the bundle as it is now; an empty file gives no key
WLoad ==
    /\ UNCHANGED besidesProvision
    /\ \E w \in Workers :
          /\ wpc[w] = "load"
          /\ wsigned' = [wsigned EXCEPT ![w] = IF bundle.key = 0 THEN -1 ELSE bundle.key]
          /\ wpc' = [wpc EXCEPT ![w] = "done"]
    /\ UNCHANGED <<bundle, wkey, bundle_writes>>

ProvisionInit ==
    /\ bundle \in {NoBundle, OldBundle}
    /\ wpc = [w \in Workers |-> "out"]
    /\ wkey = [w \in Workers |-> 0]
    /\ wsigned = [w \in Workers |-> 0]
    /\ bundle_writes = <<>>

ProvisionNext ==
    \/ WEnter
    \/ WExists
    \/ WGenerate
    \/ WOpen
    \/ WWrite
    \/ WReport
    \/ WLoad

ProvisionStart == JobIdle /\ IssuerIdle /\ ProvisionInit /\ CommandIdle /\ AppIdle

ProvisionSpec == ProvisionStart /\ [][ProvisionNext]_vars

(***************************************************************************)
(* One call of _run_command, statement by statement, with the process it   *)
(* starts: Popen, the loop on stdout until the process has exited, wait(), *)
(* and the raise on a return code other than 0.  stdout and stderr of the  *)
(* process are pipes (subprocess.PIPE): each holds PipeCapacity chunks, a  *)
(* write to a full pipe waits, and a read of an empty pipe waits until the *)
(* writer has closed it.                                                   *)
(***************************************************************************)
Streams == {"out", "err"}
\* the commands of the job for the device names
Argvs ==
    UNION {{SanitizeCmd(p), FormatCmd(p), SetPassCmd(p), EraseCmd(p), DisableCmd(p),
            ShredCmd(p)} : p \in DeviceNames \ {NoName}}

\* what a process can exit with and what it can have written to its stderr
ChildCodes == ExitCodes \cup {2}
Stderrs == {"", "busy\n"}

\* str.strip()
Strip(t) == IF t = "busy\n" THEN "busy" ELSE t

\* lines 106-109: error_message
ErrorMessage(argv, rc, err) ==
    <<"Command '", argv, "' failed with exit code ", Decimal(rc), ".\nError: ", Strip(err)>>

\* Popen raised: the exception is the one of the operating system, with no
\* command, return code or stderr of a process
SpawnErrorRaised(argv) ==
    [type |-> SpawnError(argv).type, text |-> SpawnError(argv).text,
     cmd |-> <<>>, returncode |-> 0, stderr |-> <<>>]

\* the error raised without the stderr of the process
CalledProcessErrorBare(rc, argv, err) ==
    [type |-> CalledProcessError(rc, argv).type, text |-> CalledProcessError(rc, argv).text,
     cmd |-> argv, returncode |-> rc, stderr |-> <<>>]

\* line 110: subprocess.CalledProcessError(return_code, command, stderr=error_message)
CalledProcessErrorRaised(rc, argv, err) ==
    [type |-> CalledProcessError(rc, argv).type, text |-> CalledProcessError(rc, argv).text,
     cmd |-> argv, returncode |-> rc, stderr |-> ErrorMessage(argv, rc, err)]

\* _run_command(command) is called
CallRunCommand ==
    /\ UNCHANGED besidesCommand
    /\ cpc \in {"idle", "returned", "raised"}
    /\ command' \in Argvs
    /\ cpc' = "popen"
    /\ child' = NoChild
    /\ started' = <<>>
    /\ raised' = NoError
    /\ towrite' = NoChunks
    /\ pipe' = NoChunks

\* lines 84-90: the process starts, or Popen raises and the exception leaves the call
Popen ==
    /\ UNCHANGED besidesCommand
    /\ cpc = "popen"
    /\ \/ /\ child' = [state |-> "running", code |-> 0, stderr |-> ""]
          /\ started' = Append(started, command)
          /\ cpc' = "reading"
          /\ towrite' \in [Streams -> 0..MaxWrite]
          /\ UNCHANGED raised
       \/ /\ raised' = SpawnErrorRaised(command)
          /\ cpc' = "raised"
          /\ UNCHANGED <<child, started, towrite>>
    /\ UNCHANGED <<command, pipe>>

\* the process writes a chunk to stdout or to stderr, in the order it likes; the
\* write goes through only when the pipe has room
ChildWrites ==
    /\ UNCHANGED besidesCommand
    /\ child.state = "running"
    /\ \E s \in Streams :
          /\ towrite[s] > 0
          /\ pipe[s] < PipeCapacity
          /\ towrite' = [towrite EXCEPT ![s] = @ - 1]
          /\ pipe' = [pipe EXCEPT ![s] = @ + 1]
    /\ UNCHANGED <<command, cpc, child, started, raised>>

\* the process has written all it had to, and exits with a code; its stderr text
\* is what it wrote to stderr, which nothing has read yet
ChildExits ==
    /\ UNCHANGED besidesCommand
    /\ child.state = "running"
    /\ towrite = NoChunks
    /\ \E rc \in ChildCodes, err \in Stderrs :
          /\ (err = "") <=> (pipe.err = 0)
          /\ child' = [state |-> "exited", code |-> rc, stderr |-> err]
    /\ UNCHANGED <<command, cpc, started, raised, towrite, pipe>>

\* lines 93-98: readline() of stdout gave a line, which is printed
ReadLine ==
    /\ UNCHANGED besidesCommand
    /\ cpc = "reading"
    /\ pipe.out > 0
    /\ pipe' = [pipe EXCEPT !.out = @ - 1]
    /\ UNCHANGED <<command, cpc, child, started, raised, towrite>>

\* lines 93-101: the loop ends once stdout gave '' (stdout is empty and closed)
\* and poll() is not None; wait() gives the return code
ReadAndWait ==
    /\ UNCHANGED besidesCommand
    /\ cpc = "reading"
    /\ pipe.out = 0
    /\ child.state = "exited"
    /\ cpc' = "waited"
    /\ UNCHANGED <<command, child, started, raised, towrite, pipe>>

\* lines 103-110
ReturnOrRaise ==
    /\ UNCHANGED besidesCommand
    /\ cpc = "waited"
    /\ IF child.code # 0
       THEN /\ raised' = CalledProcessErrorRaised(child.code, command, child.stderr)
            /\ pipe' = [pipe EXCEPT !.err = 0]
            /\ cpc' = "raised"
       ELSE /\ cpc' = "returned"
            /\ UNCHANGED <<raised, pipe>>
    /\ UNCHANGED <<command, child, started, towrite>>

CommandNext ==
    \/ CallRunCommand
    \/ Popen
    \/ ChildWrites
    \/ ChildExits
    \/ ReadLine
    \/ ReadAndWait
    \/ ReturnOrRaise

CommandInit == JobIdle /\ IssuerIdle /\ ProvisionIdle /\ CommandIdle /\ AppIdle

CommandSpec == CommandInit /\ [][CommandNext]_vars

(***************************************************************************)
(* EasyWipeApp.start_wipe, the DataWiper.wipe_device its thread runs, and  *)
(* on_wipe_completed, of src/main.py.  Every subprocess.run of the wipe is *)
(* one step, with its result drawn from what run() can give.               *)
(***************************************************************************)
\* the devices get_storage_devices lists, as f"/dev/{name}"
ListedNames == (DeviceNames \ {NoName}) \cup DriverNames

\* the selections of at most n listed devices, in the order of the list
RECURSIVE Selections(_)
Selections(n) ==
    IF n = 0 THEN {<<>>}
    ELSE LET shorter == Selections(n - 1)
         IN  shorter \cup UNION {{Append(q, [name |-> x]) :
                                    x \in {y \in ListedNames :
                                              \A k \in DOMAIN q : q[k].name # y}} :
                                  q \in shorter}

NvmeFormatRun(p) == <<"nvme", "format", p, "-s", "1">>
HdparmIdentifyRun(p) == <<"hdparm", "-I", p>>
HdparmSetPassRun(p) == <<"hdparm", "--user-master", "u", "--security-set-pass", "", p>>
HdparmEraseRun(p) == <<"hdparm", "--user-master", "u", "--security-erase", "", p>>
ShredRun(p) == <<"shred", "-vfz", "-n", "3", p>>

\* subprocess.run: a return code, TimeoutExpired, or another exception (the
\* program is missing)
RunResults == {"0", "1", "timeout", "oserror"}

\* hdparm -I: whether its output says 'not supported', or an exception
IdentifyResults == {"supported", "not supported", "timeout", "oserror"}

PathChecks == {"blk", "notblk", "enoent"}

\* subprocess.run(argv) gave r
Ran(argv, r) == runs' = Append(runs, [argv |-> argv, result |-> r])

\* lines 113-115 and 117-120: is_wiping is cleared, wipe_completed is emitted
\* and wipe_device returns
WipeCompleted(success, message) ==
    /\ is_wiping' = FALSE
    /\ completed' = Append(completed, [success |-> success, message |-> message])
    /\ wpos' = "done"

\* lines 98-100: wipe_completed is emitted and wipe_device returns
DeviceNotFound ==
    /\ completed' = Append(completed,
          [success |-> FALSE, message |-> <<"Device ", device_path, " not found">>])
    /\ wpos' = "done"
    /\ UNCHANGED is_wiping

\* lines 98-100: not os.path.exists(device_path)
DeviceMissing(st) == st = "enoent"

\* line 566: the items selected when the report is generated
DevicesWiped == selected

\* lines 510-549 and 256-268, 90-94: a selection is confirmed and the thread is
\* started for the first selected device; its new DataWiper enters wipe_device
StartWipe ==
    /\ UNCHANGED besidesApp
    /\ page = "system_info"
    /\ wpos = "none"
    /\ selected # <<>>
    /\ device_path' = selected[1].name
    /\ page' = "loading"
    /\ calls' = Append(calls, is_wiping)
    /\ is_wiping' = TRUE
    /\ wpos' = "exists"
    /\ UNCHANGED <<selected, exists, runs, completed, wipe_results>>

\* lines 96-100
ExistsCheck ==
    /\ UNCHANGED besidesApp
    /\ wpos = "exists"
    /\ \E st \in PathChecks :
          /\ exists' = st
          /\ IF DeviceMissing(st)
             THEN DeviceNotFound
             ELSE wpos' = "unmount" /\ UNCHANGED <<completed, is_wiping>>
    /\ UNCHANGED <<selected, page, device_path, runs, wipe_results, calls>>

\* lines 103-111 and 116-120: _unmount_device returns, or raises what it does
\* not catch; then the type of the device chooses the wipe: _wipe_nvme for
\* NVMe, _wipe_traditional for every other type
UnmountAndDetect ==
    /\ UNCHANGED besidesApp
    /\ wpos = "unmount"
    /\ \/ /\ wpos' = IF DetectDeviceType(Basename(device_path)) = "NVMe"
                      THEN "nvme_format"
                      ELSE "hdparm_identify"
          /\ UNCHANGED <<completed, is_wiping>>
       \/ WipeCompleted(FALSE, <<"Error during wipe: ", "lsblk">>)
    /\ UNCHANGED <<selected, page, device_path, exists, runs, wipe_results, calls>>

\* lines 143-171
NvmeFormat ==
    /\ UNCHANGED besidesApp
    /\ wpos = "nvme_format"
    /\ \E r \in RunResults :
          /\ Ran(NvmeFormatRun(device_path), r)
          /\ IF r \in {"0", "1"}
             THEN wpos' = "shred" /\ UNCHANGED <<completed, is_wiping>>
             ELSE WipeCompleted(FALSE, <<"Wipe failed">>)
    /\ UNCHANGED <<selected, page, device_path, exists, wipe_results, calls>>

\* lines 193-203; an exception _hdparm_secure_erase does not catch ends
\* _wipe_traditional with False (lines 189-191)
HdparmIdentify ==
    /\ UNCHANGED besidesApp
    /\ wpos = "hdparm_identify"
    /\ \E r \in IdentifyResults :
          /\ Ran(HdparmIdentifyRun(device_path), r)
          /\ IF r = "oserror" THEN WipeCompleted(FALSE, <<"Wipe failed">>)
             ELSE /\ wpos' = IF r = "supported" THEN "set_pass" ELSE "shred"
                  /\ UNCHANGED <<completed, is_wiping>>
    /\ UNCHANGED <<selected, page, device_path, exists, wipe_results, calls>>

\* lines 205-209: the return code is not looked at
HdparmSetPass ==
    /\ UNCHANGED besidesApp
    /\ wpos = "set_pass"
    /\ \E r \in RunResults :
          /\ Ran(HdparmSetPassRun(device_path), r)
          /\ IF r = "oserror" THEN WipeCompleted(FALSE, <<"Wipe failed">>)
             ELSE /\ wpos' = IF r = "timeout" THEN "shred" ELSE "erase"
                  /\ UNCHANGED <<completed, is_wiping>>
    /\ UNCHANGED <<selected, page, device_path, exists, wipe_results, calls>>

\* lines 211-220 and 180-187: _shred_device follows whatever the erase gave
HdparmErase ==
    /\ UNCHANGED besidesApp
    /\ wpos = "erase"
    /\ \E r \in RunResults :
          /\ Ran(HdparmEraseRun(device_path), r)
          /\ IF r = "oserror" THEN WipeCompleted(FALSE, <<"Wipe failed">>)
             ELSE wpos' = "shred" /\ UNCHANGED <<completed, is_wiping>>
    /\ UNCHANGED <<selected, page, device_path, exists, wipe_results, calls>>

\* lines 222-246 and 113-115
ShredDevice ==
    /\ UNCHANGED besidesApp
    /\ wpos = "shred"
    /\ \E r \in RunResults :
          /\ Ran(ShredRun(device_path), r)
          /\ IF r = "0" THEN WipeCompleted(TRUE, <<"Wipe completed">>)
             ELSE WipeCompleted(FALSE, <<"Wipe failed">>)
    /\ UNCHANGED <<selected, page, device_path, exists, wipe_results, calls>>

\* lines 551-572: the slot of wipe_completed
OnWipeCompleted ==
    /\ UNCHANGED besidesApp
    /\ page = "loading"
    /\ wpos = "done"
    /\ IF completed[Len(completed)].success
       THEN /\ wipe_results' = [success |-> TRUE, devices_wiped |-> DevicesWiped]
            /\ page' = "report"
       ELSE /\ page' = "unsuccessful"
            /\ UNCHANGED wipe_results
    /\ UNCHANGED <<selected, device_path, wpos, exists, runs, completed, is_wiping, calls>>

AppNext ==
    \/ StartWipe
    \/ ExistsCheck
    \/ UnmountAndDetect
    \/ NvmeFormat
    \/ HdparmIdentify
    \/ HdparmSetPass
    \/ HdparmErase
    \/ ShredDevice
    \/ OnWipeCompleted

AppInit ==
    /\ selected \in Selections(MaxSelected)
    /\ page = "system_info"
    /\ device_path = NoName
    /\ wpos = "none"
    /\ exists = "unchecked"
    /\ runs = <<>>
    /\ completed = <<>>
    /\ wipe_results = NoResults
    /\ is_wiping = FALSE
    /\ calls = <<>>

AppStart == JobIdle /\ IssuerIdle /\ ProvisionIdle /\ CommandIdle /\ AppInit

AppSpec == AppStart /\ [][AppNext]_vars

(***************************************************************************)
(* One DataWiper object and the calls of wipe_device made on it, one after *)
(* the other.                                                              *)
(***************************************************************************)
\* lines 88-94: a call is refused while is_wiping is set, and sets it otherwise
CallWipeDevice ==
    /\ UNCHANGED besidesApp
    /\ wpos \in {"none", "done"}
    /\ Len(calls) < MaxCalls
    /\ calls' = Append(calls, is_wiping)
    /\ IF is_wiping
       THEN /\ wpos' = "done"
            /\ UNCHANGED <<device_path, is_wiping, exists, runs>>
       ELSE /\ is_wiping' = TRUE
            /\ device_path' \in ListedNames
            /\ exists' = "unchecked"
            /\ runs' = <<>>
            /\ wpos' = "exists"
    /\ UNCHANGED <<selected, page, completed, wipe_results>>

WiperNext ==
    \/ CallWipeDevice
    \/ ExistsCheck
    \/ UnmountAndDetect
    \/ NvmeFormat
    \/ HdparmIdentify
    \/ HdparmSetPass
    \/ HdparmErase
    \/ ShredDevice

WiperStart == JobIdle /\ IssuerIdle /\ ProvisionIdle /\ CommandIdle /\ AppIdle

WiperSpec == WiperStart /\ [][WiperNext]_vars

(***************************************************************************)
(* CertificateGenerator._create_data_dict of src/certificate.py, for what  *)
(* it takes from the report of a job.                                      *)
(***************************************************************************)
\* Python's None where a string is expected; a string is a non-empty tuple
PyNone == <<>>

\* dict.get(k): None when the dict has no key k
DictGet(d, k) == IF k \in DOMAIN d THEN d[k] ELSE PyNone

CreateDataDict(wipe_report) ==
    [sanitization_details |->
        [method_type |-> "Purge",
         method_used |-> DictGet(wipe_report, "method_used"),
         tool_used |-> "Secure Data Wiper v1.0"],
     wipe_process_report |-> wipe_report]

(***************************************************************************)
(* What the history says of each device.                                   *)
(***************************************************************************)
Name(k) == device_list[k].name

\* the commands handed to _run_command for the device at index k, in order
DevLog(k) == SelectSeq(log, LAMBDA e : e.dev = k)

\* the word of an argv that tells the operation
Kind(argv) ==
    IF argv[1] = "nvme" THEN argv[2]
    ELSE IF argv[1] = "hdparm" THEN argv[4]
    ELSE IF argv[1] = "stdbuf" THEN argv[3]
    ELSE argv[1]

\* the operations attempted for device k with their results
Trace(k) == [n \in 1..Len(DevLog(k)) |-> <<Kind(DevLog(k)[n].argv), DevLog(k)[n].result>>]

Failure == {"nonzero", "nospawn"}
Ended == {"exit0"} \cup Failure

Category(p) == IF IsNvme(p) THEN "NVMe" ELSE IF IsSata(p) THEN "SATA" ELSE "Other"

\* the cascades the contract allows, as complete sequences of operations
NvmeCascades ==
    {<< <<"sanitize", "exit0">> >>}
    \cup {<< <<"sanitize", f>>, <<"format", r>> >> : f \in Failure, r \in Ended}

SsdCascades ==
    {<< <<"--security-set-pass", "exit0">>, <<"--security-erase", "exit0">> >>}
    \cup {<< <<"--security-set-pass", f>>, <<"shred", r>> >> : f \in Failure, r \in Ended}
    \cup {<< <<"--security-set-pass", "exit0">>, <<"--security-erase", f>>,
             <<"--security-disable", d>>, <<"shred", r>> >> :
             f \in Failure, d \in Ended, r \in Ended}

HddCascades == {<< <<"shred", r>> >> : r \in Ended}

Cascades(cat, rot) ==
    CASE cat = "NVMe" -> NvmeCascades
      [] cat = "SATA" /\ rot = "0" -> SsdCascades
      [] cat = "SATA" /\ rot # "0" -> HddCascades
      [] OTHER -> {<<>>}

\* t is the beginning of the cascade c, its last command still to end
Begins(t, c) ==
    /\ Len(t) <= Len(c)
    /\ \A n \in 1..Len(t) : t[n][1] = c[n][1] /\ (n < Len(t) => t[n] = c[n])

LastReport == finished[Len(finished)].report

\* the number of devices at the head of the list that ended Wiped
RECURSIVE WipedBefore(_)
WipedBefore(k) ==
    IF k > Len(device_list) \/ outcome[k] # "wiped" THEN 0 ELSE 1 + WipedBefore(k + 1)

(***************************************************************************)
(* C1: for a device whose path does not exist or is not a block-special    *)
(* file, no external command is ever dispatched, at any position of the    *)
(* list; the failed check ends the job with status Failed.                 *)
(***************************************************************************)
C1_NoCommandForNonBlockDevice ==
    /\ \A n \in DOMAIN log : seen[log[n].dev].stat = "blk"
    /\ \A k \in DOMAIN device_list :
          seen[k].stat \in {"notblk", "enoent"} =>
              /\ Len(DevLog(k)) = 0
              /\ outcome[k] = "failed"
              /\ pc = "done"
              /\ Len(finished) = 1
              /\ ~finished[1].success
              /\ finished[1].report.status = "Failed"

C1_Witness ==
    /\ pc = "done"
    /\ Len(device_list) = 2
    /\ outcome[1] = "wiped"
    /\ seen[2].stat = "notblk"

(***************************************************************************)
(* C2: a command is dispatched for device j only after every earlier       *)
(* device ended Wiped; once a device has failed no command is dispatched   *)
(* any more; never are two commands in flight together.                    *)
(***************************************************************************)
C2_SequentialFailFast ==
    /\ [](/\ Cardinality(procs) <= 1
          /\ \A n \in DOMAIN log : \A k \in 1..(log[n].dev - 1) : outcome[k] = "wiped")
    /\ [][(\E k \in DOMAIN outcome : outcome[k] = "failed")
             => (log' = log /\ procs' = procs /\ procs = {})]_vars

C2_Witness ==
    /\ pc = "done"
    /\ Len(device_list) = 2
    /\ outcome[1] = "failed"
    /\ Len(DevLog(1)) > 0
    /\ Category(Name(2)) # "Other"
    /\ is_running
    /\ Len(DevLog(2)) = 0

(***************************************************************************)
(* C3: in every report emitted, devices_wiped_successfully is the prefix   *)
(* of devices_targeted made of the devices that precede the first device   *)
(* that did not end Wiped (the whole list when every device was wiped).    *)
(***************************************************************************)
C3_WipedIsPrefixOfTargeted ==
    \A n \in DOMAIN finished :
        LET r == finished[n].report
        IN  /\ r.devices_targeted = [k \in 1..Len(device_list) |-> Name(k)]
            /\ Len(r.devices_wiped_successfully) = WipedBefore(1)
            /\ r.devices_wiped_successfully =
                   SubSeq(r.devices_targeted, 1, WipedBefore(1))

C3_Witness ==
    /\ Len(finished) = 1
    /\ Len(device_list) = 2
    /\ outcome = <<"wiped", "failed">>
    /\ LastReport.devices_wiped_successfully = <<Name(1)>>

(***************************************************************************)
(* C4: the operations attempted for a device are those of the cascade of   *)
(* its (category, rotational): NVMe sanitize then, only on failure,        *)
(* format; non-rotational SATA secure erase then, only on failure,         *)
(* overwrite; rotational SATA overwrite only; any other category nothing.  *)
(* A device ends Wiped exactly when the last operation succeeded, and      *)
(* nothing is issued after a success.                                      *)
(***************************************************************************)
C4_CascadeByCategory ==
    \A k \in DOMAIN device_list :
        LET t == Trace(k)
            cs == Cascades(Category(Name(k)), seen[k].rot)
        IN  IF seen[k].stat # "blk" THEN Len(t) = 0
            ELSE IF outcome[k] = "pending" THEN \E c \in cs : Begins(t, c)
            ELSE /\ t \in cs
                 /\ outcome[k] = "wiped" <=> (Len(t) > 0 /\ t[Len(t)][2] = "exit0")

C4_Witness ==
    \E k \in DOMAIN device_list :
        /\ Category(Name(k)) = "SATA"
        /\ seen[k].rot = "0"
        /\ outcome[k] = "wiped"
        /\ Len(Trace(k)) = 4

(***************************************************************************)
(* C5: for a device classified NVMe only nvme commands are issued, never   *)
(* shred nor hdparm; when sanitize and format both fail the device is      *)
(* Failed and the job is over with status Failed.                          *)
(***************************************************************************)
C5_NvmeNeverOverwritten ==
    /\ \A n \in DOMAIN log :
          IsNvme(Name(log[n].dev)) =>
              log[n].argv[1] = "nvme" /\ Kind(log[n].argv) \in {"sanitize", "format"}
    /\ \A k \in DOMAIN device_list :
          (/\ IsNvme(Name(k))
           /\ Len(Trace(k)) >= 2
           /\ Trace(k)[1][2] \in Failure
           /\ Trace(k)[2][2] \in Failure) =>
              /\ Len(Trace(k)) = 2
              /\ outcome[k] = "failed"
              /\ pc = "done"
              /\ Len(finished) = 1
              /\ finished[1].report.status = "Failed"

C5_Witness ==
    \E k \in DOMAIN device_list :
        /\ IsNvme(Name(k))
        /\ Len(Trace(k)) = 2
        /\ Trace(k)[1][2] = "nonzero"
        /\ Trace(k)[2][2] = "nonzero"
        /\ pc = "done"

(***************************************************************************)
(* C6: for a named device that the dispatcher classes neither NVMe nor     *)
(* SATA-like no command is issued and _wipe_device fails at once with the  *)
(* unsupported-device error; when it is the first device the job ends      *)
(* Failed with devices_wiped_successfully empty.                           *)
(***************************************************************************)
C6_UnsupportedDeviceFails ==
    \A k \in DOMAIN device_list :
        (Name(k) # NoName /\ Category(Name(k)) = "Other") =>
            /\ Len(DevLog(k)) = 0
            /\ outcome[k] # "wiped"
            /\ seen[k].stat = "blk" =>
                  /\ outcome[k] = "failed"
                  /\ pc = "done"
                  /\ Len(finished) = 1
                  /\ finished[1].message[2][1] = "Unsupported device type for "
            /\ (k = 1 /\ pc = "done") =>
                  /\ Len(finished) = 1
                  /\ ~finished[1].success
                  /\ finished[1].report.status = "Failed"
                  /\ Len(finished[1].report.devices_wiped_successfully) = 0

C6_Witness ==
    /\ Len(device_list) >= 1
    /\ Name(1) = "/dev/vdx"
    /\ seen[1].stat = "blk"
    /\ pc = "done"

(***************************************************************************)
(* C7: when a device ended Wiped, the string methods_used holds for its    *)
(* path names the branch whose command succeeded (for a path listed more   *)
(* than once, the branch of its last wipe).                                *)
(***************************************************************************)
C7_MethodNamesBranch ==
    \A k \in DOMAIN device_list :
        (/\ outcome[k] = "wiped"
         /\ \A j \in DOMAIN device_list :
               (j > k /\ Name(j) = Name(k)) => outcome[j] # "wiped") =>
            /\ Name(k) \in DOMAIN methods_used
            /\ Len(Trace(k)) > 0
            /\ LET t == Trace(k)
                   last == t[Len(t)]
                   m == methods_used[Name(k)]
               IN  /\ last[2] = "exit0"
                   /\ m = SanitizeMethod <=> last[1] = "sanitize"
                   /\ m = FormatMethod <=> (last[1] = "format" /\ t[1][2] \in Failure)
                   /\ m = SecureEraseMethod <=> last[1] = "--security-erase"
                   /\ m = OverwriteMethod <=> last[1] = "shred"

C7_Witness ==
    \E k \in DOMAIN device_list :
        /\ Name(k) = "/dev/sda"
        /\ seen[k].rot = "0"
        /\ outcome[k] = "wiped"
        /\ Trace(k) = << <<"--security-set-pass", "nonzero">>, <<"shred", "exit0">> >>
        /\ methods_used["/dev/sda"] = Decimal(passes) \o <<"-Pass Overwrite (shred)">>

(***************************************************************************)
(* C8: a run whose commands all exit emits finished exactly once, with a   *)
(* report, on the success path and on every failure path; the status of    *)
(* the report is "Success" exactly when devices_wiped_successfully equals  *)
(* devices_targeted.                                                       *)
(***************************************************************************)
C8_FinishedExactlyOnce ==
    /\ [](/\ Len(finished) <= 1
          /\ pc = "done" => Len(finished) = 1
          /\ \A n \in DOMAIN finished :
                LET r == finished[n].report
                IN  /\ r.status \in {"Success", "Failed"}
                    /\ finished[n].success <=> r.status = "Success"
                    /\ r.status = "Success" <=>
                          r.devices_wiped_successfully = r.devices_targeted)
    /\ (pc # "idle") ~> (pc = "done" /\ Len(finished) = 1)

C8_Witness ==
    /\ pc = "done"
    /\ Len(finished) = 1
    /\ ~is_running
    /\ LastReport.status = "Failed"
    /\ LastReport.message[2][1] = "Wipe process was cancelled by the user."
    /\ Len(LastReport.devices_wiped_successfully) = 1

(***************************************************************************)
(* C9: when signing fails (wrong passphrase, unreadable bundle, unreadable *)
(* unsigned document, failure while the signature is written) the call of  *)
(* richa ends with an error its caller sees; it never returns normally     *)
(* and never prints that the document was signed.                          *)
(***************************************************************************)
C9_SigningFailureSurfaces ==
    (rpc = "idle" /\ sign_result \in {"load", "open_input", "sign"}) =>
        (ended = "raised" /\ ~printed_signed)

C11_UnsignedKeptWhenSigningFails ==
    (rpc = "idle" /\ ended # "none" /\ sign_result \in {"load", "open_input", "sign"}) =>
        unsigned_pdf[report_uuid] # Absent

(***************************************************************************)
(* C12: a call of richa that finds the identity bundle does not reach      *)
(* create_p12; a bundle that exists is never written again, so over the    *)
(* calls of one process it is made at most once; and every signed document *)
(* carries the key of that one bundle.                                     *)
(***************************************************************************)
C12_IdentityMadeAtMostOnce ==
    /\ [](rpc = "create_p12" => ~p12.exists)
    /\ [][p12.exists => p12' = p12]_vars
    /\ [](\A u \in Uuids : signed_pdf[u].state = "signed" => signed_pdf[u].key = p12.key)

\* two calls, the first made the bundle and both signed with its key
C12_Witness ==
    /\ rpc = "idle"
    /\ issuances = 2
    /\ p12.exists /\ p12.key = 1
    /\ \A u \in Uuids : signed_pdf[u].state = "signed" /\ signed_pdf[u].key = 1

(***************************************************************************)
(* C13: when two processes issue at the same time against one bundle path  *)
(* that does not exist, the bundle is written at most once, neither        *)
(* process overwrites what the other wrote, and both sign with the same    *)
(* key material.                                                           *)
(***************************************************************************)
C13_ProvisioningIsCritical ==
    /\ Len(bundle_writes) <= 1
    /\ (\A w \in Workers : wpc[w] = "done") =>
          (\A v, w \in Workers : wsigned[v] = wsigned[w] /\ wsigned[w] > 0)

(***************************************************************************)
(* C14: once stop() has been called, a command is started only by the      *)
(* cascade of the device in progress, never by the head of an iteration;   *)
(* stop() itself leaves the position of run(), the processes and the       *)
(* command in flight as they are; every device that was begun has the      *)
(* whole cascade of its category and medium behind it; and an iteration    *)
(* that begins after stop() ends the job Failed with the cancellation      *)
(* message and dispatches nothing.                                         *)
(***************************************************************************)
CancelledFinish ==
    [success |-> FALSE,
     message |-> <<"An error occurred: ", <<"Wipe process was cancelled by the user.">> >>,
     report |-> [devices_targeted |-> [k \in 1..Len(device_list) |-> Name(k)],
                 devices_wiped_successfully |-> wiped,
                 status |-> "Failed",
                 message |-> <<"An error occurred: ", <<"Wipe process was cancelled by the user.">> >>,
                 methods_used |-> methods_used]]

C14_CooperativeCancellation ==
    /\ [][(~is_running /\ Len(log') > Len(log)) =>
            (pc \notin {"idle", "iter", "done"} /\ i' = i /\ log'[Len(log')].dev = i)]_vars
    /\ [][(is_running /\ ~is_running') =>
            (pc' = pc /\ i' = i /\ procs' = procs /\ cur' = cur /\ log' = log)]_vars
    /\ [](\A k \in DOMAIN device_list :
            (outcome[k] # "pending" /\ seen[k].stat = "blk") =>
                Trace(k) \in Cascades(Category(Name(k)), seen[k].rot))
    /\ [][(pc = "iter" /\ i <= Len(device_list) /\ ~is_running) =>
            (pc' = "done" /\ log' = log /\ procs' = procs
             /\ finished' = Append(finished, CancelledFinish))]_vars

\* stop() came while the first device was being wiped: its cascade went on to the
\* fallback and ended, the second device was never touched
C14_Witness ==
    /\ ~is_running
    /\ pc = "done"
    /\ Len(device_list) = 2
    /\ outcome = <<"wiped", "failed">>
    /\ Len(DevLog(1)) = 2 /\ Len(DevLog(2)) = 0
    /\ Name(2) # NoName /\ seen[2].stat = "unchecked"
    /\ finished = <<CancelledFinish>>

\* as C14 is worded: whenever the job ends after stop() with a device left
\* unprocessed, its message is the cancellation message
C14_CancellationMessageIfDeviceRemains ==
    [][(~is_running /\ pc \notin {"idle", "done"} /\ pc' = "done"
        /\ \E k \in DOMAIN device_list : outcome'[k] = "pending") =>
            finished'[Len(finished')].message =
                <<"An error occurred: ", <<"Wipe process was cancelled by the user.">> >>]_vars

(***************************************************************************)
(* C15: a call of _run_command makes one attempt to start a process and    *)
(* never a second: it starts one process, or none when Popen fails, and    *)
(* then the error of Popen leaves the call.  When the process started, the *)
(* call returns normally exactly when the process exited with code 0, and  *)
(* on any other code it raises an error that carries the argv, the exit    *)
(* code and the stderr text of that process, stripped.                     *)
(***************************************************************************)
C15_OneProcessRaiseOnNonZero ==
    /\ Len(started) <= 1
    /\ cpc \in {"reading", "waited", "returned"} => started = <<command>>
    /\ cpc = "returned" => (child.state = "exited" /\ child.code = 0 /\ raised.type = "None")
    /\ (cpc = "raised" /\ started = <<>>) =>
          (child.state = "none" /\ raised.type = "FileNotFoundError")
    /\ (cpc = "raised" /\ started # <<>>) =>
          /\ started = <<command>>
          /\ child.state = "exited" /\ child.code # 0
          /\ raised.type = "CalledProcessError"
          /\ raised.cmd = command
          /\ raised.returncode = child.code
          /\ raised.stderr # <<>>
          /\ raised.stderr[Len(raised.stderr)] = Strip(child.stderr)

\* the process wrote to stderr and exited with 2
C15_Witness ==
    /\ cpc = "raised"
    /\ started = <<command>>
    /\ child = [state |-> "exited", code |-> 2, stderr |-> "busy\n"]
    /\ raised.returncode = 2
    /\ raised.stderr[Len(raised.stderr)] = "busy"

\* as C15 is worded: every call that has ended started exactly one process
C15_ExactlyOneProcessPerCall ==
    cpc \in {"returned", "raised"} =>
        /\ Len(started) = 1
        /\ cpc = "returned" <=> (child.state = "exited" /\ child.code = 0)

(***************************************************************************)
(* C16: every command handed to _run_command for a device path P is one    *)
(* of the six argv sequences of the external interface, the overwrite      *)
(* being shred -n N -v -z P with N the pass count of the job.              *)
(***************************************************************************)
InterfaceArgvs(P, pw, N) ==
    {<<"nvme", "sanitize", P, "-a", "2">>,
     <<"nvme", "format", P, "-s", "1">>,
     <<"hdparm", "--user-master", "user", "--security-set-pass", pw, P>>,
     <<"hdparm", "--user-master", "user", "--security-erase", pw, P>>,
     <<"hdparm", "--user-master", "user", "--security-disable", pw, P>>,
     <<"shred", "-n", Digit(N), "-v", "-z", P>>}

C16_OnlyInterfaceArgvs ==
    \A n \in DOMAIN log : log[n].argv \in InterfaceArgvs(Name(log[n].dev), Password, passes)

(***************************************************************************)
(* C17: for a job that ended Success with a device wiped, the method_used  *)
(* field of the certificate built from the report of the job is the method *)
(* string the job recorded for a wiped device, and is not None.            *)
(***************************************************************************)
C17_CertificateCarriesMethod ==
    (pc = "done" /\ finished[Len(finished)].success /\ Len(wiped) > 0) =>
        LET m == CreateDataDict(LastReport).sanitization_details.method_used
        IN  /\ m # PyNone
            /\ \E k \in DOMAIN device_list : m = methods_used[Name(k)]

(***************************************************************************)
(* C18: when sign_pdf is attempted the JSON report of the call is on disk, *)
(* written to its end from the data and the uuid of the call; and neither  *)
(* sign_pdf nor the removal of the unsigned document changes any JSON      *)
(* report, whether the signing succeeds or fails.                          *)
(***************************************************************************)
C18_JsonWrittenBeforeSigningAndKept ==
    /\ [](rpc \in {"sign", "remove"} =>
            /\ files[JsonPath(report_uuid)].state = "written"
            /\ files[JsonPath(report_uuid)].content = JsonDump(data, report_uuid)
            /\ json_from[report_uuid] = data)
    /\ [][(rpc \in {"sign", "remove"}) =>
            (\A u \in Uuids : files'[JsonPath(u)] = files[JsonPath(u)])]_vars

\* the passphrase is not the one of the bundle: signing failed once the output was
\* open, the unsigned document was removed, the JSON report is whole
C18_Witness ==
    /\ rpc = "idle"
    /\ ended = "returned"
    /\ p12.exists /\ p12.pass # P12_PASSWORD
    /\ sign_result = "sign"
    /\ removed[report_uuid]
    /\ files[JsonPath(report_uuid)] = Written(DictSet(data, "report_uuid", report_uuid))

C21_DisableBeforeOverwrite ==
    \A k \in DOMAIN device_list :
        LET t == Trace(k) IN
        (Category(Name(k)) = "SATA" /\ seen[k].rot = "0") =>
            \A n \in DOMAIN t :
                (/\ t[n][1] = "shred"
                 /\ \E m \in 1..(n - 1) :
                       /\ t[m][1] \in {"--security-set-pass", "--security-erase"}
                       /\ t[m][2] \in Failure)
                => \E m \in 1..(n - 1) : t[m][1] = "--security-disable"

(***************************************************************************)
(* The job when the drive may never confirm the erase: the thread takes    *)
(* its own steps and every other child process exits, but nothing makes    *)
(* the hdparm --security-erase process exit.  _run_command waits for its   *)
(* child with no timeout (process.wait() of line 101), so the wait ends    *)
(* only with EraseExit.                                                    *)
(***************************************************************************)
RunningBesidesErase ==
    \/ Iterate
    \/ Finish
    \/ SanitizeExit
    \/ FormatExit
    \/ SetPassExit
    \/ DisableExit
    \/ ShredExit

EraseHangsSpec == Init /\ [][Next]_vars /\ WF_vars(RunningBesidesErase)

(***************************************************************************)
(* C22: an erase command that does not confirm completion does not hold    *)
(* the job: the wait for it ends (with a timeout, the device being taken   *)
(* as wiped by ATA Secure Erase) and the job goes on.                      *)
(***************************************************************************)
C22_EraseWaitEnds == (pc = "erase") ~> (pc # "erase")

(***************************************************************************)
(* C23: issuance persists the JSON report and renders the unsigned         *)
(* document before it obtains or creates the signing identity: whenever    *)
(* the identity is being created (and so whenever its creation can fail),  *)
(* the JSON report of this call is on disk and the unsigned document has   *)
(* been rendered.                                                          *)
(***************************************************************************)
C23_IdentityAfterJsonAndRender ==
    (rpc = "create_p12") =>
        /\ files[JsonPath(report_uuid)].state = "written"
        /\ rendered

(***************************************************************************)
(* C24: the category the dispatcher of wiping.py acts on is the one the    *)
(* prefix of the device name gives, which is also the one                  *)
(* DataWiper._detect_device_type gives: NVMe only for a name beginning     *)
(* with "nvme", SATA only for a name beginning with "sd", Other for every  *)
(* other name.                                                             *)
(***************************************************************************)
C24_CategoryByNamePrefix ==
    \A k \in DOMAIN device_list :
        (k \in DOMAIN seen /\ seen[k].stat = "blk") =>
            Category(Name(k)) = DetectDeviceType(Basename(Name(k)))

(***************************************************************************)
(* C25: a SATA device whose rotational indicator cannot be read does not   *)
(* fail for that reason: no hdparm command is issued for it, the only      *)
(* operation attempted is the overwrite, and the device ends Wiped exactly *)
(* when the overwrite succeeded (Failed only when the overwrite failed).   *)
(***************************************************************************)
C25_UnreadableRotationalOverwrites ==
    \A k \in DOMAIN device_list :
        (/\ Category(Name(k)) = "SATA"
         /\ seen[k].stat = "blk"
         /\ seen[k].rot = "unreadable") =>
            LET t == Trace(k) IN
            /\ \A n \in DOMAIN DevLog(k) : DevLog(k)[n].argv[1] # "hdparm"
            /\ Len(t) = 1
            /\ t[1][1] = "shred"
            /\ (outcome[k] = "pending") <=> (t[1][2] = "inflight")
            /\ (outcome[k] = "wiped") <=> (t[1][2] = "exit0")
            /\ (outcome[k] = "failed") <=> (t[1][2] \in Failure)

C25_Witness ==
    \E k \in DOMAIN device_list :
        /\ Category(Name(k)) = "SATA"
        /\ seen[k].rot = "unreadable"
        /\ outcome[k] = "wiped"
        /\ \E n \in DOMAIN wiped : wiped[n] = Name(k)
        /\ Trace(k) = << <<"shred", "exit0">> >>

(***************************************************************************)
(* C27: while _run_command waits for a process that has a finite amount    *)
(* to write to stdout and to stderr, the executor and the process never    *)
(* wait on each other: the process can write or exit, or the executor can  *)
(* read a line or leave its loop, so that the call goes on to return or    *)
(* raise.                                                                  *)
(***************************************************************************)
C27_ExecutorAndProcessNeverBothWait ==
    (cpc = "reading") => ENABLED (ChildWrites \/ ChildExits \/ ReadLine \/ ReadAndWait)

(***************************************************************************)
(* C26: the message run() makes of the error of a failing command (the     *)
(* message of the report when that command was the last fallback of a      *)
(* device) contains the argv of the command, its exit code and the stderr  *)
(* text the process wrote.  str(CalledProcessError) has its literal parts  *)
(* at 1, 3 and 5, the command at 2 and the exit code at 4.                 *)
(***************************************************************************)
C26_FailureMessageCarriesStderr ==
    (cpc = "raised" /\ raised.type = "CalledProcessError") =>
        LET message == ErrorOccurred(raised)
            text == message[2]
        IN  /\ text[2] = command
            /\ text[4] = Decimal(child.code)
            /\ (Strip(child.stderr) # "") =>
                   \E n \in {1, 3, 5} : text[n] = Strip(child.stderr)

(***************************************************************************)
(* C28: when the method recorded for a device is "<N>-Pass Overwrite       *)
(* (shred)", N is the number given with -n to the shred command that ran   *)
(* and succeeded for that device.                                          *)
(***************************************************************************)
\* the word of an argv that follows the option opt
ArgAfter(argv, opt) == argv[(CHOOSE n \in DOMAIN argv : argv[n] = opt) + 1]

C28_RecordedPassesAreThoseRun ==
    \A n \in DOMAIN log :
        (/\ Kind(log[n].argv) = "shred"
         /\ log[n].result = "exit0"
         /\ Name(log[n].dev) \in DOMAIN methods_used) =>
            LET m == methods_used[Name(log[n].dev)] IN
            (m[Len(m)] = "-Pass Overwrite (shred)") =>
                SubSeq(m, 1, Len(m) - 1) = <<ArgAfter(log[n].argv, "-n")>>

(***************************************************************************)
(* C29: every device in devices_wiped of the wipe results EasyWipeApp      *)
(* generated was the target of a wipe that completed successfully.         *)
(***************************************************************************)
C29_DevicesWipedWereWiped ==
    (wipe_results # NoResults) =>
        \A n \in DOMAIN wipe_results.devices_wiped :
            /\ wipe_results.devices_wiped[n].name = device_path
            /\ \E c \in DOMAIN completed : completed[c].success

(***************************************************************************)
(* C30: DataWiper.wipe_device runs no destructive command (nvme format,    *)
(* an hdparm security command, shred) on a path that is not a block device *)
(* nor on a device whose detected type is Other.                           *)
(***************************************************************************)
Destructive(argv) ==
    \/ argv[1] = "shred"
    \/ argv[1] = "nvme" /\ argv[2] = "format"
    \/ argv[1] = "hdparm" /\ argv[2] # "-I"

C30_DestructiveOnlyOnSupportedBlockDevice ==
    \A n \in DOMAIN runs :
        (Destructive(runs[n].argv) /\ runs[n].result # "oserror") =>
            /\ exists = "blk"
            /\ DetectDeviceType(Basename(device_path)) # "Other"

(***************************************************************************)
(* C31: when a call of DataWiper.wipe_device that was accepted (is_wiping  *)
(* was False on entry) has returned, is_wiping is False again.             *)
(***************************************************************************)
C31_IsWipingClearedOnReturn ==
    (wpos = "done" /\ calls # <<>> /\ ~calls[Len(calls)]) => ~is_wiping

(***************************************************************************)
(* C32: every call of DataWiper.wipe_device that has returned has emitted  *)
(* wipe_completed exactly once, whatever is_wiping was on entry.           *)
(***************************************************************************)
C32_CompletedOncePerCall ==
    (wpos \in {"none", "done"}) => Len(completed) = Len(calls)

(***************************************************************************)
(* C33: in every report a WipeThread object emits, on its first run or on  *)
(* a later one, the keys of methods_used are the paths of                  *)
(* devices_wiped_successfully.                                             *)
(***************************************************************************)
C33_MethodsKeysAreWipedDevices ==
    \A n \in DOMAIN finished :
        LET r == finished[n].report IN
        DOMAIN r.methods_used =
            {r.devices_wiped_successfully[k] : k \in DOMAIN r.devices_wiped_successfully}

(***************************************************************************)
(* C34: once the last device of the list is wiped, which is where a job    *)
(* gets when the iteration of its last device began before any stop() and  *)
(* the cascade of that device succeeded, all the devices are listed as     *)
(* wiped and the job ends with status Success, whether or not stop() was   *)
(* called in the meantime.                                                 *)
(***************************************************************************)
C34_LateStopHasNoEffect ==
    LET n == Len(device_list) IN
    (n > 0 /\ outcome[n] = "wiped") =>
        /\ wiped = [k \in 1..n |-> Name(k)]
        /\ \/ pc = "iter" /\ i = n + 1 /\ finished = <<>>
           \/ /\ pc = "done"
              /\ Len(finished) = 1
              /\ finished[1].success
              /\ finished[1].message = <<"Success">>
              /\ finished[1].report.status = "Success"
              /\ finished[1].report.devices_wiped_successfully =
                     finished[1].report.devices_targeted

\* stop() came during the cascade of the second and last device
C34_Witness ==
    /\ ~is_running
    /\ pc = "done"
    /\ Len(device_list) = 2
    /\ outcome = <<"wiped", "wiped">>
    /\ finished[1].success
    /\ finished[1].report.devices_wiped_successfully = <<Name(1), Name(2)>>

(***************************************************************************)
(* C35: for a SATA device read as non-rotational whose erase command       *)
(* failed and whose security-disable command failed as well, the overwrite *)
(* is still issued; the device ends Wiped, with the overwrite method       *)
(* recorded, when the overwrite succeeds, and Failed when it fails.        *)
(***************************************************************************)
C35_OverwriteAfterFailedDisable ==
    \A k \in DOMAIN device_list :
        LET t == Trace(k) IN
        (/\ Category(Name(k)) = "SATA"
         /\ seen[k].rot = "0"
         /\ Len(t) >= 3
         /\ t[2][1] = "--security-erase" /\ t[2][2] \in Failure
         /\ t[3][1] = "--security-disable" /\ t[3][2] \in Failure) =>
            /\ Len(t) = 4
            /\ t[4][1] = "shred"
            /\ (t[4][2] = "inflight") <=> (outcome[k] = "pending")
            /\ (t[4][2] \in Failure) <=> (outcome[k] = "failed")
            /\ (t[4][2] = "exit0") <=> (outcome[k] = "wiped")
            /\ (/\ t[4][2] = "exit0"
                /\ \A j \in DOMAIN device_list :
                      (j > k /\ Name(j) = Name(k)) => outcome[j] # "wiped") =>
                   /\ Name(k) \in DOMAIN methods_used
                   /\ methods_used[Name(k)] = OverwriteMethod

C35_Witness ==
    \E k \in DOMAIN device_list :
        /\ Category(Name(k)) = "SATA"
        /\ seen[k].rot = "0"
        /\ outcome[k] = "wiped"
        /\ Len(Trace(k)) = 4
        /\ Trace(k)[2] = <<"--security-erase", "nonzero">>
        /\ Trace(k)[3] = <<"--security-disable", "nonzero">>
        /\ Trace(k)[4] = <<"shred", "exit0">>
        /\ methods_used[Name(k)] = OverwriteMethod

(***************************************************************************)
(* C36: a job with an empty device list hands no command to _run_command,  *)
(* emits no progress value, and emits finished at most once; once started  *)
(* it ends, and when it has ended finished was emitted once with status    *)
(* Success, no device targeted and no device wiped, whether or not stop()  *)
(* was called.                                                             *)
(***************************************************************************)
EmptyListRun ==
    (device_list = <<>>) =>
        /\ log = <<>>
        /\ procs = {}
        /\ progress = <<>>
        /\ (pc # "done") => finished = <<>>
        /\ (pc = "done") =>
              /\ Len(finished) = 1
              /\ finished[1].success
              /\ finished[1].message = <<"Success">>
              /\ finished[1].report.status = "Success"
              /\ finished[1].report.devices_targeted = <<>>
              /\ finished[1].report.devices_wiped_successfully = <<>>

C36_EmptyListSucceeds ==
    /\ []EmptyListRun
    /\ (device_list = <<>> /\ pc = "iter") ~> (pc = "done")

C36_Witness ==
    /\ device_list = <<>>
    /\ pc = "done"
    /\ Len(finished) = 1
    /\ finished[1].report.status = "Success"

\* what one step of richa() (main.py 29-66) may change on disk
OnlyOwnFilesTouched ==
    /\ \A f \in Paths :
          (files'[f] # files[f]) =>
              (f \in {JsonPath(report_uuid), UnsignedPath(report_uuid),
                      SignedPath(report_uuid)})
    /\ \A u \in Uuids \ {report_uuid'} :
          /\ json_reports'[u] = json_reports[u]
          /\ unsigned_pdf'[u] = unsigned_pdf[u]
          /\ signed_pdf'[u] = signed_pdf[u]
    /\ (p12' # p12) => ~p12.exists

(***************************************************************************)
(* C37: a step of the issuance for report_uuid A changes no file but the   *)
(* JSON report, the unsigned document and the signed document named by A,  *)
(* and changes the identity bundle only when there was none: the JSON      *)
(* report and the documents of every other report_uuid stay as they were.  *)
(***************************************************************************)
C37_OnlyOwnFilesTouched == [][OnlyOwnFilesTouched]_vars

\* the report of A was issued, then the one of B: A's files are as they were
C37_Witness ==
    /\ issuances = 2
    /\ report_uuid = "B"
    /\ rpc = "idle"
    /\ files[JsonPath("A")].state = "written"
    /\ files[SignedPath("A")].state = "signed"
    /\ files[UnsignedPath("A")].state = "absent"
    /\ files[JsonPath("B")].state = "written"
    /\ files[SignedPath("B")].state = "signed"
    /\ files[UnsignedPath("B")].state = "absent"

====
